---- MODULE Spec2Model ----
(***************************************************************************)
(* Model of OmsAgent/Fairfax/omsagent_ff.py: the command retry engine      *)
(* (run_command_with_retries), the retry and final policies it is called   *)
(* with, the command execution facility (run_get_output) under it, and     *)
(* main with the operations it dispatches to, the connection conflict      *)
(* detector of install included (SpecMain).                                *)
(*                                                                         *)
(* Command output is a sequence of tokens.  A token stands for a piece of  *)
(* text: the words "dpkg" and "lock", an ordinary character "a", a blank,  *)
(* a newline, and one non-ASCII byte.                                      *)
(***************************************************************************)
EXTENDS Integers, Sequences, FiniteSets, TLC

VARIABLES
    waagentLoaded,          \* 'Utils.WAAgentUtil' in sys.modules
    op,                     \* caller of run_command_with_retries
    retries,                \* parameters of run_command_with_retries
    retry_check,
    final_check,
    initial_sleep_time,
    sleep_increase_factor,
    try_count,              \* locals of run_command_with_retries
    sleep_time,
    exit_code,
    output,
    should_retry,
    pc,                     \* position in run_command_with_retries
    exc,                    \* exception raised out of the call, or "None"
    runs,                   \* number of executions of cmd
    lastRun,                \* what the last execution of cmd delivered
    sleeps,                 \* durations passed to time.sleep, in order
    declined,               \* retry_check answered False
    updates,                \* number of runs of 'apt-get update'
    finalCalls,             \* number of calls of final_check
    finalArgs,              \* arguments of the call of final_check
    finalRet,               \* value final_check returned
    pres,                   \* result of a policy applied on its own
    HUtilObject,            \* global HUtilObject: "None" or "hutil"
    operation,              \* main: operation
    mpc,                    \* position in main and in the operation it runs
    main_exit_code,         \* main: exit_code
    message,                \* main: message
    exitCode,               \* exit status of the process, -1 while it runs
    reports,                \* number of status reports (log_and_exit)
    vm_supported,           \* is_vm_supported_for_extension(), once read
    public_settings,        \* get_settings()[0], once read
    protected_settings,     \* get_settings()[1], once read
    det,                    \* locals and reads of detect_multiple_connections
                            \* and detect_scom_connection
    scom_port_open,         \* detect_scom_connection: "None", TRUE or FALSE
    cert_signed_by_scom,    \* detect_scom_connection
    probes,                 \* SCOM sources consulted, in order
    detects,                \* number of calls of detect_multiple_connections
    scomChecks,             \* number of calls of detect_scom_connection
    verdict,                \* what the detector concluded
    restarts,               \* number of runs of the service restart command
    restart_exit_code,      \* exit code of the service restart, -1: none
    HandlerEnvironment,     \* global HandlerEnvironment: "None" or "env"
    SettingsSequenceNumber, \* global SettingsSequenceNumber, -1 for None
    envLoads,               \* number of reads of HandlerEnvironment.json
    seqWalks,               \* number of walks of the config folder
    envCalls,               \* number of calls of get_handler_env
    seqCalls                \* number of calls of get_latest_seq_no

mainVars == <<HUtilObject, operation, mpc, main_exit_code, message, exitCode,
              reports, vm_supported, public_settings, protected_settings, det,
              scom_port_open, cert_signed_by_scom, probes, detects,
              scomChecks, verdict, restarts, restart_exit_code,
              HandlerEnvironment,
              SettingsSequenceNumber, envLoads, seqWalks, envCalls,
              seqCalls>>

cacheVars == <<HandlerEnvironment, SettingsSequenceNumber, envLoads,
               seqWalks, envCalls, seqCalls>>

vars == <<waagentLoaded, op, retries, retry_check, final_check,
          initial_sleep_time, sleep_increase_factor, try_count, sleep_time,
          exit_code, output, should_retry, pc, exc, runs, lastRun, sleeps,
          declined, updates, finalCalls, finalArgs, finalRet, pres,
          HUtilObject, operation, mpc, main_exit_code, message, exitCode,
          reports, vm_supported, public_settings, protected_settings, det,
          scom_port_open, cert_signed_by_scom, probes, detects,
          scomChecks, verdict, restarts, restart_exit_code,
              HandlerEnvironment,
          SettingsSequenceNumber, envLoads, seqWalks, envCalls,
              seqCalls>>

-----------------------------------------------------------------------------
(* Bounds *)

MaxRetries == 3
MaxInitialSleep == 2
MaxFactor == 2
MaxLen == 3
MaxListLen == 3
MaxDirs == 2
MaxConfLen == 3

-----------------------------------------------------------------------------
(* Program constants *)

DPKGLockedErrorCode == 12
InstallErrorCurlNotInstalled == 64
EnableErrorOMSReturned403 == 5
EnableErrorOMSReturnedNon200 == 6
EnableErrorResolvingHost == 7
DefaultInitialSleepTime == 30
DefaultSleepIncreaseFactor == 1
InstallRetries == 15
UninstallRetries == 5
EnableRetries == 5
EnableCalledBeforeSuccessfulInstall == 20
UnsupportedOpenSSL == 60
UnsupportedOSCode == 51
MissingParameterCode == 11
InvalidParameterCode == 11
MultipleConnectionsCode == 10
CannotConnectCode == 55
GenericFailureCode == 1

-----------------------------------------------------------------------------
(* Command results *)

NonAscii == "0xE9"
Newline == "\n"
Blank == " "
Alphabet == {"dpkg", "lock", "a", Blank, Newline, NonAscii}
Whitespace == {Blank, Newline}

\* exit codes a command can end with
ExitCodes == {0, 1, 5, 6, 7, 12, 64}

\* every raw output of at most MaxLen tokens
RawOutputs == UNION {[1..n -> Alphabet] : n \in 0..MaxLen}

\* the raw outputs the commands of the engine runs are drawn from
EngineOutputs == { <<Newline>>,
                   <<"a">>,
                   <<"dpkg", "a", "lock", Newline>>,
                   <<NonAscii>> }

\* exit codes of 'which apt-get'
AptGetExitCodes == {0, 1}

RECURSIVE LStrip(_)
LStrip(s) ==
    IF s # <<>> /\ Head(s) \in Whitespace THEN LStrip(Tail(s)) ELSE s

RECURSIVE RStrip(_)
RStrip(s) ==
    IF s # <<>> /\ s[Len(s)] \in Whitespace
    THEN RStrip(SubSeq(s, 1, Len(s) - 1))
    ELSE s

\* str.strip()
Strip(s) == RStrip(LStrip(s))

\* output.encode('utf-8') succeeds: waagent.RunGetOutput hands back decoded
\* text; subprocess.check_output hands back a byte string, which Python 2
\* first decodes as ASCII
Encodable(loaded, raw) ==
    loaded \/ \A i \in 1..Len(raw) : raw[i] # NonAscii

\* run_get_output: the exit code and the stripped output, or a raise
run_get_output(loaded, code, raw) ==
    IF Encodable(loaded, raw)
    THEN [raised |-> FALSE, exit_code |-> code, output |-> Strip(raw)]
    ELSE [raised |-> TRUE, exit_code |-> code, output |-> raw]

-----------------------------------------------------------------------------
(* Retry and final policies *)

\* re.compile(r'^.*dpkg.+lock.*$', re.M).search(out): some line holds
\* "dpkg", then at least one character, then "lock"
dpkg_locked_re_search(out) ==
    \E i \in 1..Len(out) : \E j \in 1..Len(out) :
        /\ j >= i + 2
        /\ out[i] = "dpkg"
        /\ out[j] = "lock"
        /\ \A k \in i..j : out[k] # Newline

is_dpkg_locked_any_code(ec, out) == dpkg_locked_re_search(out)

is_dpkg_locked(ec, out) ==
    IF ec # 0
    THEN dpkg_locked_re_search(out)
    ELSE FALSE

is_curl_found_always(ec, out) == TRUE

is_curl_found(ec, out) ==
    IF ec = InstallErrorCurlNotInstalled THEN FALSE ELSE TRUE

retry_if_dpkg_locked_or_curl_is_not_found_no_which(ec, out, apt) ==
    LET dpkg_locked == is_dpkg_locked(ec, out)
        curl_found == is_curl_found(ec, out)
    IN  IF dpkg_locked
        THEN [should_retry |-> TRUE, update |-> FALSE]
        ELSE IF ~curl_found
        THEN [should_retry |-> TRUE, update |-> TRUE]
        ELSE [should_retry |-> FALSE, update |-> FALSE]

retry_if_dpkg_locked_or_curl_is_not_found_lock_ignored(ec, out, apt) ==
    IF ~is_curl_found(ec, out) /\ apt = 0
    THEN [should_retry |-> TRUE, update |-> TRUE]
    ELSE [should_retry |-> FALSE, update |-> FALSE]

\* .update: the policy runs 'apt-get update' before it answers
retry_if_dpkg_locked_or_curl_is_not_found(ec, out, apt_get_exit_code) ==
    LET dpkg_locked == is_dpkg_locked(ec, out)
        curl_found == is_curl_found(ec, out)
    IN  IF dpkg_locked
        THEN [should_retry |-> TRUE, update |-> FALSE]
        ELSE IF ~curl_found /\ apt_get_exit_code = 0
        THEN [should_retry |-> TRUE, update |-> TRUE]
        ELSE [should_retry |-> FALSE, update |-> FALSE]

final_check_if_dpkg_locked(ec, out) ==
    IF is_dpkg_locked(ec, out) THEN DPKGLockedErrorCode ELSE ec

retry_onboarding_also_on_7(ec, out) ==
    ec \in {EnableErrorOMSReturned403, EnableErrorOMSReturnedNon200,
            EnableErrorResolvingHost}

retry_onboarding(ec, out) ==
    IF ec = EnableErrorOMSReturned403
    THEN TRUE
    ELSE IF ec = EnableErrorOMSReturnedNon200
    THEN TRUE
    ELSE FALSE

raise_if_no_internet_raises_on_failure(ec) == ec # 0

\* raise_if_no_internet raises on this exit code and returns every other one
raise_if_no_internet_raises(ec) == ec = EnableErrorResolvingHost

\* retry_check(exit_code, output); ans is the answer of an arbitrary policy
CallRetryCheck(rc, ec, out, ans, apt) ==
    CASE rc = "retry_if_dpkg_locked_or_curl_is_not_found" ->
            retry_if_dpkg_locked_or_curl_is_not_found(ec, out, apt)
      [] rc = "retry_onboarding" ->
            [should_retry |-> retry_onboarding(ec, out), update |-> FALSE]
      [] OTHER -> [should_retry |-> ans, update |-> FALSE]

\* final_check(exit_code, output); v is the answer of an arbitrary policy
CallFinalCheck(fc, ec, out, v) ==
    CASE fc = "final_check_if_dpkg_locked" ->
            [raised |-> FALSE, value |-> final_check_if_dpkg_locked(ec, out)]
      [] fc = "raise_if_no_internet" ->
            [raised |-> raise_if_no_internet_raises(ec), value |-> ec]
      [] OTHER -> [raised |-> FALSE, value |-> v]

-----------------------------------------------------------------------------
(* run_command_with_retries *)

NoRun == [exit_code |-> -1, output |-> <<>>]
NoResult == [fn |-> "None"]
NoMessage == [kind |-> "None"]
engineRest == <<waagentLoaded, op, retries, retry_check, final_check,
                initial_sleep_time, sleep_increase_factor, try_count,
                sleep_time, exit_code, output, should_retry, runs, lastRun,
                sleeps, declined, updates, finalCalls, finalArgs, finalRet,
                pres>>

\* settings not read yet
UnreadPublic == [kind |-> "unread", workspaceId |-> "None",
                 stopOnMultipleConnections |-> "None"]
UnreadProtected == [kind |-> "unread", workspaceKey |-> "None"]

NoDet == [result |-> "none", omsadmin |-> "unread", list |-> <<>>,
          found |-> FALSE, other_connection_exists |-> FALSE,
          editor |-> "unread", conf |-> "unread",
          probe_exit_code |-> -1, probe_output |-> <<>>, conf_text |-> <<>>,
          cert |-> "unread", openssl |-> -1,
          cert_exit_code |-> -1, cert_output |-> <<>>]

\* main has not started: the module globals of lines 74-77
MainIdle ==
    /\ HUtilObject = "None"
    /\ operation = "None"
    /\ mpc = "none"
    /\ main_exit_code = -1
    /\ message = NoMessage
    /\ exitCode = -1
    /\ reports = 0
    /\ vm_supported = "unread"
    /\ public_settings = UnreadPublic
    /\ protected_settings = UnreadProtected
    /\ det = NoDet
    /\ scom_port_open = "None"
    /\ cert_signed_by_scom = FALSE
    /\ probes = <<>>
    /\ detects = 0
    /\ scomChecks = 0
    /\ verdict = "None"
    /\ restarts = 0
    /\ restart_exit_code = -1
    /\ HandlerEnvironment = "None"
    /\ SettingsSequenceNumber = -1
    /\ envLoads = 0
    /\ seqWalks = 0
    /\ envCalls = 0
    /\ seqCalls = 0

Init ==
    /\ waagentLoaded \in BOOLEAN
    /\ op = "None"
    /\ retries = 0
    /\ retry_check = "None"
    /\ final_check = "None"
    /\ initial_sleep_time = 0
    /\ sleep_increase_factor = 0
    /\ try_count = 0
    /\ sleep_time = 0
    /\ exit_code = -1
    /\ output = <<>>
    /\ should_retry = FALSE
    /\ pc = "start"
    /\ exc = "None"
    /\ runs = 0
    /\ lastRun = NoRun
    /\ sleeps = <<>>
    /\ declined = FALSE
    /\ updates = 0
    /\ finalCalls = 0
    /\ finalArgs = NoRun
    /\ finalRet = -1
    /\ pres = NoResult
    /\ MainIdle

\* entry of run_command_with_retries: try_count = 0, sleep_time = initial
Enter(caller, r, rc, fc, ist, sif) ==
    /\ pc = "start"
    /\ op' = caller
    /\ retries' = r
    /\ retry_check' = rc
    /\ final_check' = fc
    /\ initial_sleep_time' = ist
    /\ sleep_increase_factor' = sif
    /\ try_count' = 0
    /\ sleep_time' = ist
    /\ pc' = "loop"
    /\ UNCHANGED <<waagentLoaded, exit_code, output, should_retry, exc, runs,
                   lastRun, sleeps, declined, updates, finalCalls, finalArgs,
                   finalRet, pres>>
    /\ UNCHANGED mainVars

\* a call with arbitrary arguments: a retry policy that may answer anything,
\* and no final policy or one that may return anything
Call ==
    \E r \in 0..MaxRetries, fc \in {"None", "any"},
       ist \in 1..MaxInitialSleep, sif \in 1..MaxFactor :
        Enter("Call", r, "any", fc, ist, sif)

\* the call of install()
CallInstall ==
    Enter("Install", InstallRetries,
          "retry_if_dpkg_locked_or_curl_is_not_found",
          "final_check_if_dpkg_locked",
          DefaultInitialSleepTime, DefaultSleepIncreaseFactor)

\* the call of uninstall()
CallUninstall ==
    Enter("Uninstall", UninstallRetries,
          "retry_if_dpkg_locked_or_curl_is_not_found",
          "final_check_if_dpkg_locked",
          DefaultInitialSleepTime, DefaultSleepIncreaseFactor)

\* the call of enable()
CallEnable ==
    Enter("Enable", EnableRetries, "retry_onboarding", "raise_if_no_internet",
          DefaultInitialSleepTime, DefaultSleepIncreaseFactor)

LoopCondition_one_less(tc, r) == tc < r

LoopCondition_one_more(tc, r) == tc <= r + 1

\* while try_count <= retries
LoopCondition(tc, r) == tc <= r

\* exit_code, output = run_command_and_log(cmd, check_error, log_cmd)
Execute ==
    /\ pc = "loop"
    /\ LoopCondition(try_count, retries)
    /\ \E code \in ExitCodes, raw \in EngineOutputs :
        LET r == run_get_output(waagentLoaded, code, raw) IN
        /\ runs' = runs + 1
        /\ IF r.raised
           THEN /\ pc' = "raised"
                /\ exc' = "UnicodeDecodeError"
                /\ UNCHANGED <<exit_code, output, lastRun>>
           ELSE /\ pc' = "check"
                /\ exit_code' = r.exit_code
                /\ output' = r.output
                /\ lastRun' = [exit_code |-> r.exit_code, output |-> r.output]
                /\ exc' = exc
    /\ UNCHANGED <<waagentLoaded, op, retries, retry_check, final_check,
                   initial_sleep_time, sleep_increase_factor, try_count,
                   sleep_time, should_retry, sleeps, declined, updates,
                   finalCalls, finalArgs, finalRet, pres>>
    /\ UNCHANGED mainVars

\* the while condition is false
LoopExit ==
    /\ pc = "loop"
    /\ ~LoopCondition(try_count, retries)
    /\ pc' = "final"
    /\ UNCHANGED <<waagentLoaded, op, retries, retry_check, final_check,
                   initial_sleep_time, sleep_increase_factor, try_count,
                   sleep_time, exit_code, output, should_retry, exc, runs,
                   lastRun, sleeps, declined, updates, finalCalls, finalArgs,
                   finalRet, pres>>
    /\ UNCHANGED mainVars

NextTryCount_stays(tc) == tc

\* try_count += 1
NextTryCount(tc) == tc + 1

AfterRetryCheck_no_break(sr) == "sleep"

\* if not should_retry: break
AfterRetryCheck(sr) == IF sr THEN "sleep" ELSE "final"

\* should_retry, retry_message = retry_check(exit_code, output);
\* if not should_retry: break; try_count += 1
RetryCheck ==
    /\ pc = "check"
    /\ \E ans \in BOOLEAN, apt \in AptGetExitCodes, upd \in EngineOutputs :
        LET r == CallRetryCheck(retry_check, exit_code, output, ans, apt)
            u == run_get_output(waagentLoaded, 0, upd)
        IN  /\ updates' = updates + (IF r.update THEN 1 ELSE 0)
            /\ IF r.update /\ u.raised
               THEN /\ pc' = "raised"
                    /\ exc' = "UnicodeDecodeError"
                    /\ UNCHANGED <<should_retry, try_count, declined>>
               ELSE /\ should_retry' = r.should_retry
                    /\ pc' = AfterRetryCheck(r.should_retry)
                    /\ declined' = ~r.should_retry
                    /\ try_count' = IF pc' = "sleep"
                                    THEN NextTryCount(try_count)
                                    ELSE try_count
                    /\ exc' = exc
    /\ UNCHANGED <<waagentLoaded, op, retries, retry_check, final_check,
                   initial_sleep_time, sleep_increase_factor, sleep_time,
                   exit_code, output, runs, lastRun, sleeps, finalCalls,
                   finalArgs, finalRet, pres>>
    /\ UNCHANGED mainVars

NextSleepTime_additive(st, sif) == st + sif

\* sleep_time *= sleep_increase_factor
NextSleepTime(st, sif) == st * sif

\* time.sleep(sleep_time); sleep_time *= sleep_increase_factor
Sleep ==
    /\ pc = "sleep"
    /\ sleeps' = Append(sleeps, sleep_time)
    /\ sleep_time' = NextSleepTime(sleep_time, sleep_increase_factor)
    /\ pc' = "loop"
    /\ UNCHANGED <<waagentLoaded, op, retries, retry_check, final_check,
                   initial_sleep_time, sleep_increase_factor, try_count,
                   exit_code, output, should_retry, exc, runs, lastRun,
                   declined, updates, finalCalls, finalArgs, finalRet, pres>>
    /\ UNCHANGED mainVars

FinalCheck_not_called ==
    /\ pc = "final"
    /\ pc' = "returned"
    /\ UNCHANGED <<waagentLoaded, op, retries, retry_check, final_check,
                   initial_sleep_time, sleep_increase_factor, try_count,
                   sleep_time, exit_code, output, should_retry, exc, runs,
                   lastRun, sleeps, declined, updates, finalCalls, finalArgs,
                   finalRet, pres>>
    /\ UNCHANGED mainVars

\* if final_check is not None: exit_code = final_check(exit_code, output);
\* return exit_code
FinalCheck ==
    /\ pc = "final"
    /\ IF final_check = "None"
       THEN /\ pc' = "returned"
            /\ UNCHANGED <<exit_code, exc, finalCalls, finalArgs, finalRet>>
       ELSE \E v \in ExitCodes :
            LET r == CallFinalCheck(final_check, exit_code, output, v) IN
            /\ finalCalls' = finalCalls + 1
            /\ finalArgs' = [exit_code |-> exit_code, output |-> output]
            /\ IF r.raised
               THEN /\ pc' = "raised"
                    /\ exc' = "OMSAgentCannotConnectToOMSException"
                    /\ UNCHANGED <<exit_code, finalRet>>
               ELSE /\ pc' = "returned"
                    /\ finalRet' = r.value
                    /\ exit_code' = r.value
                    /\ exc' = exc
    /\ UNCHANGED <<waagentLoaded, op, retries, retry_check, final_check,
                   initial_sleep_time, sleep_increase_factor, try_count,
                   sleep_time, output, should_retry, runs, lastRun, sleeps,
                   declined, updates, pres>>
    /\ UNCHANGED mainVars

Next ==
    \/ Call
    \/ CallInstall
    \/ CallUninstall
    \/ CallEnable
    \/ Execute
    \/ LoopExit
    \/ RetryCheck
    \/ Sleep
    \/ FinalCheck

Spec == Init /\ [][Next]_vars

\* one step of a call that has been entered
Step ==
    \/ Execute
    \/ LoopExit
    \/ RetryCheck
    \/ Sleep
    \/ FinalCheck

\* the program is sequential: once every command, every policy and every
\* sleep returns, the statement the call stands at is eventually executed
SpecFair == Spec /\ WF_vars(Step)

-----------------------------------------------------------------------------
(* The policies applied on their own to one command result *)

\* what run_get_output can deliver for the raw outputs of at most MaxLen
\* tokens
DeliveredOutputs(loaded) ==
    { run_get_output(loaded, 0, raw).output :
        raw \in { x \in RawOutputs : Encodable(loaded, x) } }

InitPolicy ==
    /\ waagentLoaded \in BOOLEAN
    /\ op = "None"
    /\ retries = 0
    /\ retry_check = "None"
    /\ final_check = "None"
    /\ initial_sleep_time = 0
    /\ sleep_increase_factor = 0
    /\ try_count = 0
    /\ sleep_time = 0
    /\ exit_code \in ExitCodes
    /\ output \in DeliveredOutputs(waagentLoaded)
    /\ should_retry = FALSE
    /\ pc = "policy"
    /\ exc = "None"
    /\ runs = 0
    /\ lastRun = NoRun
    /\ sleeps = <<>>
    /\ declined = FALSE
    /\ updates = 0
    /\ finalCalls = 0
    /\ finalArgs = NoRun
    /\ finalRet = -1
    /\ pres = NoResult
    /\ MainIdle

PolicyFrame ==
    /\ UNCHANGED <<waagentLoaded, op, retries, retry_check, final_check,
                   initial_sleep_time, sleep_increase_factor, try_count,
                   sleep_time, exit_code, output, should_retry, pc, exc, runs,
                   lastRun, sleeps, declined, updates, finalCalls, finalArgs,
                   finalRet>>
    /\ UNCHANGED mainVars

\* final_check_if_dpkg_locked(exit_code, output)
ApplyFinalCheckIfDpkgLocked ==
    /\ pc = "policy"
    /\ pres = NoResult
    /\ pres' = [fn |-> "final_check_if_dpkg_locked",
                value |-> final_check_if_dpkg_locked(exit_code, output)]
    /\ PolicyFrame

\* retry_if_dpkg_locked_or_curl_is_not_found(exit_code, output), with the
\* 'which apt-get' and 'apt-get update' commands it runs
ApplyRetryIfDpkgLockedOrCurlIsNotFound ==
    /\ pc = "policy"
    /\ pres = NoResult
    /\ \E apt \in AptGetExitCodes, upd \in EngineOutputs :
        LET r == retry_if_dpkg_locked_or_curl_is_not_found(exit_code, output,
                                                           apt)
            u == run_get_output(waagentLoaded, 0, upd)
        IN  pres' = [fn |-> "retry_if_dpkg_locked_or_curl_is_not_found",
                     apt |-> apt,
                     update |-> r.update,
                     commands |-> IF r.update
                                  THEN <<"which apt-get", "apt-get update">>
                                  ELSE <<"which apt-get">>,
                     raised |-> r.update /\ u.raised,
                     should_retry |-> r.should_retry]
    /\ PolicyFrame

\* retry_onboarding(exit_code, output)
ApplyRetryOnboarding ==
    /\ pc = "policy"
    /\ pres = NoResult
    /\ pres' = [fn |-> "retry_onboarding",
                should_retry |-> retry_onboarding(exit_code, output)]
    /\ PolicyFrame

NextPolicy ==
    \/ ApplyFinalCheckIfDpkgLocked
    \/ ApplyRetryIfDpkgLockedOrCurlIsNotFound
    \/ ApplyRetryOnboarding

SpecPolicy == InitPolicy /\ [][NextPolicy]_vars

-----------------------------------------------------------------------------
(* The connection conflict detector: the texts it reads *)

\* str.lower() of a token
Lower(t) ==
    CASE t = "No Workspace" -> "no workspace"
      [] t = "Illegal Option" -> "illegal option"
      [] OTHER -> t

LowerAll(s) == [i \in 1..Len(s) |-> Lower(s[i])]

\* needle in text.lower()
InLower(needle, text) == \E i \in 1..Len(text) : Lower(text[i]) = needle

\* text.split('\n'): the lines of a text, each a sequence of tokens
RECURSIVE Split(_)
Split(s) ==
    IF \A i \in 1..Len(s) : s[i] # Newline
    THEN <<s>>
    ELSE LET n == CHOOSE i \in 1..Len(s) :
                    /\ s[i] = Newline
                    /\ \A k \in 1..(i - 1) : s[k] # Newline
         IN  <<SubSeq(s, 1, n - 1)>> \o Split(SubSeq(s, n + 1, Len(s)))

\* the output of 'omsadmin.sh -l': "TARGET" is a text holding the workspace
\* id of the settings, "OTHER" a text holding another workspace id, "scom" the
\* text 'Workspace(SCOM Workspace): scom'
ListAlphabet == {"TARGET", "OTHER", "scom", "No Workspace", "a", Newline,
                 NonAscii}
ListOutputs == UNION {[1..n -> ListAlphabet] : n \in 0..MaxListLen}

\* names of the sub-directories os.walk(EtcOMSAgentPath) yields: the
\* workspace id of the settings, another GUID, 'scom', any other name
DirNames == {"TARGET", "OTHER", "scom", "conf"}
DirLists == UNION {[1..n -> DirNames] : n \in 0..MaxDirs}

\* what 'omsadmin.sh -o' and omiconfigeditor print and end with
ProbeOutputs == { <<>>, <<"Illegal Option">>, <<"unknown option">>,
                  <<"unrecognized option">>, <<NonAscii>> }
ProbeExitCodes == {0, 1, 2}

\* contents of omiserver.conf: every text of at most MaxConfLen tokens, and
\* some longer ones
ConfAlphabet == {"httpsport", "=", "1270", "12700", "8080", ",", Blank,
                 Newline, "a"}
ConfTexts ==
    UNION {[1..n -> ConfAlphabet] : n \in 0..MaxConfLen}
    \cup { <<"httpsport", Blank, "=", Blank, "1270", ",", "8080">>,
           <<"httpsport", "=", "8080", Blank, "1270">>,
           <<"a", Newline, "httpsport", "=", "8080", Newline, "httpsport",
             "=", "1270">>,
           <<"a", Newline, Blank, "httpsport", "=", "8080", ",", "1270",
             Newline, "a">> }

\* what 'openssl x509 -in scx.pem -noout -text' prints and ends with;
\* "IssuerSCOM" is an Issuer line SCOMCertIssuerRegex matches
CertOutputs == { <<"IssuerSCOM">>, <<"IssuerOther">>, <<NonAscii>> }
CertExitCodes == {0, 1}
WhichExitCodes == {0, 1}

ScanList_stop_at_first_line(lines, other) ==
    IF lines = <<>>
    THEN [found |-> FALSE, other |-> other]
    ELSE IF \E i \in 1..Len(Head(lines)) : Head(lines)[i] = "TARGET"
    THEN [found |-> TRUE, other |-> other]
    ELSE [found |-> FALSE, other |-> TRUE]

\* for line in output.split('\n'): if workspace_id in line: return
\*                                 else: other_connection_exists = True
RECURSIVE ScanList(_, _)
ScanList(lines, other) ==
    IF lines = <<>>
    THEN [found |-> FALSE, other |-> other]
    ELSE IF \E i \in 1..Len(Head(lines)) : Head(lines)[i] = "TARGET"
    THEN [found |-> TRUE, other |-> other]
    ELSE ScanList(Tail(lines), TRUE)

ScanWorkspaceList_identifiers_only(out) ==
    [found |-> \E i \in 1..Len(out) : out[i] = "TARGET",
     other |-> /\ \A i \in 1..Len(out) : out[i] # "TARGET"
               /\ \E i \in 1..Len(out) : out[i] \in {"OTHER", "scom"}]

\* if output.strip().lower() != 'no workspace': scan the lines
ScanWorkspaceList(out) ==
    IF LowerAll(Strip(out)) # <<"no workspace">>
    THEN ScanList(Split(out), FALSE)
    ELSE [found |-> FALSE, other |-> FALSE]

RECURSIVE ScanDirs_scom_ignored(_, _)
ScanDirs_scom_ignored(dirs, other) ==
    IF dirs = <<>>
    THEN [found |-> FALSE, other |-> other]
    ELSE IF Head(dirs) = "TARGET"
    THEN [found |-> TRUE, other |-> other]
    ELSE ScanDirs_scom_ignored(Tail(dirs), other \/ Head(dirs) = "OTHER")

\* for sub_dir in sub_dirs: if sub_dir_name == workspace_id: return
\*   elif GUID or 'scom': other_connection_exists = True
RECURSIVE ScanDirs(_, _)
ScanDirs(dirs, other) ==
    IF dirs = <<>>
    THEN [found |-> FALSE, other |-> other]
    ELSE IF Head(dirs) = "TARGET"
    THEN [found |-> TRUE, other |-> other]
    ELSE ScanDirs(Tail(dirs), other \/ Head(dirs) \in {"OTHER", "scom"})

AfterEnumeration_always_scom(scan) ==
    IF scan.found THEN "return" ELSE "scom"

\* lines 480, 496, 500-512: return, raise, or go on to detect_scom_connection
AfterEnumeration(scan) ==
    IF scan.found
    THEN "return"
    ELSE IF scan.other THEN "raise" ELSE "scom"

\* "True" or "False", as the probe functions return them
detect_scom_using_omsadmin(code, out) ==
    IF ~InLower("illegal option", out) /\ ~InLower("unknown option", out)
    THEN IF code = 0 THEN "True" ELSE "False"
    ELSE "False"

detect_scom_using_omiconfigeditor(code, out) ==
    IF ~InLower("illegal option", out) /\ ~InLower("unknown option", out)
    THEN IF code = 0 THEN "True" ELSE "False"
    ELSE "False"

SCOMPortText == "1270"

\* positions of an "httpsport" that r'^[\s]*httpsport[\s]*=(.*)$' (re.M)
\* matches: only white space back to a line start, only white space up to "="
HttpsportAt(txt, q) ==
    /\ txt[q] = "httpsport"
    /\ \E p \in 1..q :
        /\ p = 1 \/ txt[p - 1] = Newline
        /\ \A k \in p..(q - 1) : txt[k] \in Whitespace
    /\ \E r \in (q + 1)..Len(txt) :
        /\ txt[r] = "="
        /\ \A k \in (q + 1)..(r - 1) : txt[k] \in Whitespace

\* group(1) of the first match: the rest of the line after the "="
HttpsportGroup(txt) ==
    LET q == CHOOSE x \in 1..Len(txt) :
                /\ HttpsportAt(txt, x)
                /\ \A y \in 1..(x - 1) : ~HttpsportAt(txt, y)
        r == CHOOSE x \in (q + 1)..Len(txt) :
                /\ txt[x] = "="
                /\ \A k \in (q + 1)..(x - 1) : txt[k] \in Whitespace
        e == IF \E k \in (r + 1)..Len(txt) : txt[k] = Newline
             THEN (CHOOSE k \in (r + 1)..Len(txt) :
                      /\ txt[k] = Newline
                      /\ \A j \in (r + 1)..(k - 1) : txt[j] # Newline) - 1
             ELSE Len(txt)
    IN  SubSeq(txt, r + 1, e)

PortListed_as_prefix(ports) ==
    \E i \in 1..Len(ports) : ports[i] \in {"1270", "12700"}

\* str(SCOMPort) in ports.replace(',', ' ').split(' ')
PortListed(ports) ==
    \E i \in 1..Len(ports) :
        /\ ports[i] = SCOMPortText
        /\ i = 1 \/ ports[i - 1] \in {",", Blank}
        /\ i = Len(ports) \/ ports[i + 1] \in {",", Blank}

detect_scom_using_omiserver_conf(txt) ==
    IF \E q \in 1..Len(txt) : HttpsportAt(txt, q)
    THEN IF PortListed(HttpsportGroup(txt)) THEN "True" ELSE "False"
    ELSE "False"

\* issuer_re.search(cert_output)
issuer_re_search(out) == \E i \in 1..Len(out) : out[i] = "IssuerSCOM"

CertSigned_exit_code_ignored(code, out) == issuer_re_search(out)

\* lines 571-581: cert_signed_by_scom
CertSigned(code, out) ==
    IF code = 0 THEN issuer_re_search(out) ELSE FALSE

ScomConflict_either(port, cert) == port = "True" \/ cert

\* if scom_port_open and cert_signed_by_scom
ScomConflict(port, cert) == port = "True" /\ cert

-----------------------------------------------------------------------------
(* main and the operations it dispatches to *)

Operations == {"Disable", "Uninstall", "Install", "Enable", "Update"}

\* what get_settings() returns as public settings: None, or a dictionary
\* whose workspaceId is absent, ill-formed or well-formed and whose
\* stopOnMultipleConnections is absent, False, True or the string 'true'
PublicSettings ==
    {[kind |-> "None", workspaceId |-> "None",
      stopOnMultipleConnections |-> "None"]}
    \cup [kind : {"dict"}, workspaceId : {"None", "invalid", "valid"},
          stopOnMultipleConnections : {"None", "False", "True", "'true'"}]

ProtectedSettings ==
    {[kind |-> "None", workspaceKey |-> "None"]}
    \cup [kind : {"dict"}, workspaceKey : {"None", "invalid", "valid"}]

\* an exception leaves the operation and reaches the handlers of main
Raise(e) ==
    /\ mpc' = "handler"
    /\ exc' = e
    /\ UNCHANGED <<exitCode, reports>>
    /\ UNCHANGED cacheVars

log_and_exit_and_return(code) ==
    /\ mpc' = "log_and_exit"
    /\ exitCode' = exitCode
    /\ reports' = reports + 1
    /\ exc' = exc
    /\ UNCHANGED cacheVars

\* log_and_exit: one status report, then the process ends with the code
log_and_exit(code) ==
    /\ mpc' = "exited"
    /\ exitCode' = code
    /\ reports' = reports + 1
    /\ exc' = exc
    /\ UNCHANGED cacheVars

Goto(m) ==
    /\ mpc' = m
    /\ UNCHANGED <<exc, exitCode, reports>>
    /\ UNCHANGED cacheVars

InitMain ==
    /\ waagentLoaded \in BOOLEAN
    /\ op = "None"
    /\ retries = 0
    /\ retry_check = "None"
    /\ final_check = "None"
    /\ initial_sleep_time = 0
    /\ sleep_increase_factor = 0
    /\ try_count = 0
    /\ sleep_time = 0
    /\ exit_code = -1
    /\ output = <<>>
    /\ should_retry = FALSE
    /\ pc = "idle"
    /\ exc = "None"
    /\ runs = 0
    /\ lastRun = NoRun
    /\ sleeps = <<>>
    /\ declined = FALSE
    /\ updates = 0
    /\ finalCalls = 0
    /\ finalArgs = NoRun
    /\ finalRet = -1
    /\ pres = NoResult
    /\ HUtilObject = "None"
    /\ operation = "None"
    /\ mpc = "main"
    /\ main_exit_code = -1
    /\ message = NoMessage
    /\ exitCode = -1
    /\ reports = 0
    /\ vm_supported = "unread"
    /\ public_settings = UnreadPublic
    /\ protected_settings = UnreadProtected
    /\ det = NoDet
    /\ scom_port_open = "None"
    /\ cert_signed_by_scom = FALSE
    /\ probes = <<>>
    /\ detects = 0
    /\ scomChecks = 0
    /\ verdict = "None"
    /\ restarts = 0
    /\ restart_exit_code = -1
    /\ HandlerEnvironment = "None"
    /\ SettingsSequenceNumber = -1
    /\ envLoads = 0
    /\ seqWalks = 0
    /\ envCalls = 0
    /\ seqCalls = 0

MaxOptionLen == 2

\* the pieces a command-line argument is made of
OptionAlphabet == {"-", "/", "disable", "uninstall", "install", "enable",
                   "update", "x"}

\* sys.argv[1]
Options == UNION {[1..n -> OptionAlphabet] : n \in 0..MaxOptionLen}

\* ^([-/]*): the argument without its leading dashes and slashes
RECURSIVE StripSwitch(_)
StripSwitch(option) ==
    IF option # <<>> /\ Head(option) \in {"-", "/"}
    THEN StripSwitch(Tail(option))
    ELSE option

\* re.match('^([-/]*)(disable)', option): the name follows the switches,
\* whatever comes after it
Matches(name, option) ==
    LET rest == StripSwitch(option) IN rest # <<>> /\ Head(rest) = name

\* main, lines 97-110: the operation the argument names, None when it names
\* none or when no argument was given (the IndexError is caught and logged)
ParseOperation(given, option) ==
    IF ~given THEN "None"
    ELSE IF Matches("disable", option) THEN "Disable"
    ELSE IF Matches("uninstall", option) THEN "Uninstall"
    ELSE IF Matches("install", option) THEN "Install"
    ELSE IF Matches("enable", option) THEN "Enable"
    ELSE IF Matches("update", option) THEN "Update"
    ELSE "None"

\* main, lines 96-118: the operation is parsed; without one, line 114 calls
\* log_and_exit(None, 'Unknown', 1, 'No valid operation provided'), four
\* arguments for a function of three: the TypeError is raised outside every
\* try block, the interpreter prints the traceback and ends the process with
\* status 1, and log_and_exit has not run
MainDispatch ==
    /\ mpc = "main"
    /\ \E given \in BOOLEAN, option \in Options :
        LET o == ParseOperation(given, option) IN
        /\ operation' = o
        /\ IF o = "None"
           THEN /\ mpc' = "crashed"
                /\ exc' = "TypeError"
                /\ exitCode' = 1
                /\ UNCHANGED <<reports, main_exit_code, message>>
                /\ UNCHANGED cacheVars
           ELSE /\ main_exit_code' = 0
                /\ message' = [kind |-> "succeeded"]
                /\ Goto("parse_context")
    /\ UNCHANGED <<pc, HUtilObject, vm_supported, public_settings,
                   protected_settings, det, scom_port_open,
                   cert_signed_by_scom, probes, detects, scomChecks, verdict,
                   restarts,
                   restart_exit_code>>
    /\ UNCHANGED engineRest

\* HUtilObject = parse_context(operation)
parse_context ==
    /\ mpc = "parse_context"
    /\ \/ /\ HUtilObject' = IF waagentLoaded THEN "hutil" ELSE "None"
          /\ Goto("operation")
       \/ /\ waagentLoaded
          /\ HUtilObject' = HUtilObject
          /\ Raise("OMSAgentParameterMissingError")
    /\ UNCHANGED <<pc, operation, main_exit_code, message, vm_supported,
                   public_settings, protected_settings, det, scom_port_open,
                   cert_signed_by_scom, probes, detects, scomChecks, verdict,
                   restarts,
                   restart_exit_code>>
    /\ UNCHANGED engineRest

install_preconditions_detects_unasked(vm, pub) ==
    IF ~vm THEN "exit51"
    ELSE IF pub.kind = "None" THEN "missing"
    ELSE IF pub.workspaceId = "None" THEN "missing"
    ELSE IF pub.workspaceId = "invalid" THEN "invalid"
    ELSE IF pub.stopOnMultipleConnections # "None" THEN "detect"
    ELSE "command"

\* install, lines 184-200
install_preconditions(vm, pub) ==
    IF ~vm THEN "exit51"
    ELSE IF pub.kind = "None" THEN "missing"
    ELSE IF pub.workspaceId = "None" THEN "missing"
    ELSE IF pub.workspaceId = "invalid" THEN "invalid"
    ELSE IF pub.stopOnMultipleConnections = "True" THEN "detect"
    ELSE "command"

\* install() up to the call of run_command_with_retries
install ==
    /\ mpc = "operation"
    /\ operation = "Install"
    /\ \E vm \in BOOLEAN, pub \in PublicSettings :
        LET o == install_preconditions(vm, pub) IN
        /\ vm_supported' = IF vm THEN "True" ELSE "False"
        /\ public_settings' = IF vm THEN pub ELSE public_settings
        /\ CASE o = "exit51" ->
                  log_and_exit(UnsupportedOSCode) /\ UNCHANGED <<pc, detects>>
             [] o = "missing" ->
                  Raise("OMSAgentParameterMissingError")
                  /\ UNCHANGED <<pc, detects>>
             [] o = "invalid" ->
                  Raise("OMSAgentInvalidParameterError")
                  /\ UNCHANGED <<pc, detects>>
             [] o = "detect" ->
                  Goto("detect") /\ detects' = detects + 1 /\ pc' = pc
             [] o = "command" ->
                  Goto("engine") /\ pc' = "start" /\ detects' = detects
    /\ UNCHANGED <<HUtilObject, operation, main_exit_code, message,
                   protected_settings, det, scom_port_open,
                   cert_signed_by_scom, probes, scomChecks, verdict,
                   restarts,
                   restart_exit_code>>
    /\ UNCHANGED engineRest

\* uninstall() up to the call of run_command_with_retries
uninstall ==
    /\ mpc = "operation"
    /\ operation = "Uninstall"
    /\ Goto("engine")
    /\ pc' = "start"
    /\ UNCHANGED <<HUtilObject, operation, main_exit_code, message,
                   vm_supported, public_settings, protected_settings, det,
                   scom_port_open, cert_signed_by_scom, probes, detects,
                   scomChecks, verdict, restarts,
                   restart_exit_code>>
    /\ UNCHANGED engineRest

enable_preconditions_no_install_check(vm, pub, prot, installed) ==
    IF ~vm THEN "exit51"
    ELSE IF pub.kind = "None" THEN "missing"
    ELSE IF prot.kind = "None" THEN "missing"
    ELSE IF pub.workspaceId = "None" THEN "missing"
    ELSE IF prot.workspaceKey = "None" THEN "missing"
    ELSE IF pub.workspaceId = "invalid" \/ prot.workspaceKey = "invalid"
    THEN "invalid"
    ELSE "command"

\* enable, lines 244-269
enable_preconditions(vm, pub, prot, installed) ==
    IF ~vm THEN "exit51"
    ELSE IF pub.kind = "None" THEN "missing"
    ELSE IF prot.kind = "None" THEN "missing"
    ELSE IF pub.workspaceId = "None" THEN "missing"
    ELSE IF prot.workspaceKey = "None" THEN "missing"
    ELSE IF pub.workspaceId = "invalid" \/ prot.workspaceKey = "invalid"
    THEN "invalid"
    ELSE IF ~installed THEN "exit20"
    ELSE "command"

\* enable() up to the call of run_command_with_retries
enable ==
    /\ mpc = "operation"
    /\ operation = "Enable"
    /\ \E vm \in BOOLEAN, pub \in PublicSettings, prot \in ProtectedSettings,
          installed \in BOOLEAN :
        LET o == enable_preconditions(vm, pub, prot, installed) IN
        /\ vm_supported' = IF vm THEN "True" ELSE "False"
        /\ public_settings' = IF vm THEN pub ELSE public_settings
        /\ protected_settings' = IF vm THEN prot ELSE protected_settings
        /\ det' = IF o \in {"exit20", "command"}
                  THEN [det EXCEPT !.omsadmin =
                            IF installed THEN "True" ELSE "False"]
                  ELSE det
        /\ CASE o = "exit51" ->
                  log_and_exit(UnsupportedOSCode) /\ pc' = pc
             [] o = "exit20" ->
                  log_and_exit(EnableCalledBeforeSuccessfulInstall)
                  /\ pc' = pc
             [] o = "missing" ->
                  Raise("OMSAgentParameterMissingError") /\ pc' = pc
             [] o = "invalid" ->
                  Raise("OMSAgentInvalidParameterError") /\ pc' = pc
             [] o = "command" ->
                  Goto("engine") /\ pc' = "start"
    /\ UNCHANGED <<HUtilObject, operation, main_exit_code, message,
                   scom_port_open, cert_signed_by_scom, probes, detects,
                   scomChecks, verdict, restarts,
                   restart_exit_code>>
    /\ UNCHANGED engineRest

\* the operation calls run_command_with_retries
InstallCommand == mpc = "engine" /\ operation = "Install" /\ CallInstall
UninstallCommand == mpc = "engine" /\ operation = "Uninstall" /\ CallUninstall
EnableCommand == mpc = "engine" /\ operation = "Enable" /\ CallEnable

\* install and uninstall return what run_command_with_retries returned
ReturnExitCode ==
    /\ mpc = "engine"
    /\ pc = "returned"
    /\ operation \in {"Install", "Uninstall"}
    /\ main_exit_code' = exit_code
    /\ Goto("after_operation")
    /\ UNCHANGED <<pc, HUtilObject, operation, message, vm_supported,
                   public_settings, protected_settings, det, scom_port_open,
                   cert_signed_by_scom, probes, detects, scomChecks, verdict,
                   restarts,
                   restart_exit_code>>
    /\ UNCHANGED engineRest

RestartNeeded_whatever_the_code(ec) == TRUE

\* if exit_code is 0
RestartNeeded(ec) == ec = 0

\* enable, lines 291-297: on exit code 0 the service is restarted
EnableReturn ==
    /\ mpc = "engine"
    /\ pc = "returned"
    /\ operation = "Enable"
    /\ IF RestartNeeded(exit_code)
       THEN \E code \in {0, 1}, raw \in EngineOutputs :
            LET r == run_get_output(waagentLoaded, code, raw) IN
            /\ restarts' = restarts + 1
            /\ IF r.raised
               THEN /\ Raise("UnicodeDecodeError")
                    /\ UNCHANGED <<main_exit_code, restart_exit_code>>
               ELSE /\ Goto("after_operation")
                    /\ main_exit_code' = exit_code
                    /\ restart_exit_code' = r.exit_code
       ELSE /\ UNCHANGED <<restarts, restart_exit_code>>
            /\ main_exit_code' = exit_code
            /\ Goto("after_operation")
    /\ UNCHANGED <<pc, HUtilObject, operation, message, vm_supported,
                   public_settings, protected_settings, det, scom_port_open,
                   cert_signed_by_scom, probes, detects, scomChecks,
                   verdict>>
    /\ UNCHANGED engineRest

\* disable, lines 300-313
disable ==
    /\ mpc = "operation"
    /\ operation = "Disable"
    /\ \/ log_and_exit(GenericFailureCode) /\ main_exit_code' = main_exit_code
       \/ \E code \in {0, 1}, raw \in EngineOutputs :
            LET r == run_get_output(waagentLoaded, code, raw) IN
            IF r.raised
            THEN Raise("UnicodeDecodeError")
                 /\ main_exit_code' = main_exit_code
            ELSE Goto("after_operation") /\ main_exit_code' = r.exit_code
    /\ UNCHANGED <<pc, HUtilObject, operation, message, vm_supported,
                   public_settings, protected_settings, det, scom_port_open,
                   cert_signed_by_scom, probes, detects, scomChecks, verdict,
                   restarts,
                   restart_exit_code>>
    /\ UNCHANGED engineRest

\* 'Update' : dummy_command
dummy_command ==
    /\ mpc = "operation"
    /\ operation = "Update"
    /\ main_exit_code' = 0
    /\ Goto("after_operation")
    /\ UNCHANGED <<pc, HUtilObject, operation, message, vm_supported,
                   public_settings, protected_settings, det, scom_port_open,
                   cert_signed_by_scom, probes, detects, scomChecks, verdict,
                   restarts,
                   restart_exit_code>>
    /\ UNCHANGED engineRest

\* main, lines 128-139: the message for the exit code the operation returned
ResultMessage(o, code) ==
    IF code = 0
    THEN [kind |-> "succeeded"]
    ELSE IF code = 1 /\ o = "Install"
    THEN [kind |-> "install failed with exit code 1"]
    ELSE IF code = DPKGLockedErrorCode /\ o = "Install"
    THEN [kind |-> "install failed, dpkg locked"]
    ELSE [kind |-> "failed with exit code", code |-> code]

MainResult ==
    /\ mpc = "after_operation"
    /\ message' = ResultMessage(operation, main_exit_code)
    /\ Goto("log_and_exit")
    /\ UNCHANGED <<pc, HUtilObject, operation, main_exit_code, vm_supported,
                   public_settings, protected_settings, det, scom_port_open,
                   cert_signed_by_scom, probes, detects, scomChecks, verdict,
                   restarts,
                   restart_exit_code>>
    /\ UNCHANGED engineRest

ExceptionExitCode_generic_for_conflict(e) ==
    CASE e = "OMSAgentParameterMissingError" -> MissingParameterCode
      [] e = "OMSAgentInvalidParameterError" -> InvalidParameterCode
      [] e = "OMSAgentCannotConnectToOMSException" -> CannotConnectCode
      [] OTHER -> GenericFailureCode

\* main, lines 141-164: the exit code of each except clause
ExceptionExitCode(e) ==
    CASE e = "OMSAgentParameterMissingError" -> MissingParameterCode
      [] e = "OMSAgentInvalidParameterError" -> InvalidParameterCode
      [] e = "OMSAgentUnwantedMultipleConnectionsException" ->
            MultipleConnectionsCode
      [] e = "OMSAgentCannotConnectToOMSException" -> CannotConnectCode
      [] OTHER -> GenericFailureCode

ExceptionMessage_without_error(o, e) ==
    CASE e = "OMSAgentParameterMissingError" ->
            [kind |-> "failed due to a missing parameter", error |-> e]
      [] e = "OMSAgentInvalidParameterError" ->
            [kind |-> "failed due to an invalid parameter", error |-> e]
      [] e = "OMSAgentUnwantedMultipleConnectionsException" ->
            [kind |-> "failed due to multiple connections", error |-> e]
      [] e = "OMSAgentCannotConnectToOMSException" ->
            [kind |-> "failed, cannot connect", error |-> e]
      [] OTHER -> [kind |-> "failed with error", error |-> "None"]

\* main, lines 141-164: the message of each except clause
ExceptionMessage(o, e) ==
    CASE e = "OMSAgentParameterMissingError" ->
            [kind |-> "failed due to a missing parameter", error |-> e]
      [] e = "OMSAgentInvalidParameterError" ->
            [kind |-> "failed due to an invalid parameter", error |-> e]
      [] e = "OMSAgentUnwantedMultipleConnectionsException" ->
            [kind |-> "failed due to multiple connections", error |-> e]
      [] e = "OMSAgentCannotConnectToOMSException" ->
            [kind |-> "failed, cannot connect", error |-> e]
      [] OTHER -> [kind |-> "failed with error", error |-> e]

\* an exception raised while the operation ran is caught by main
MainExcept ==
    /\ \/ mpc = "handler"
       \/ mpc = "engine" /\ pc = "raised"
    /\ main_exit_code' = ExceptionExitCode(exc)
    /\ message' = ExceptionMessage(operation, exc)
    /\ Goto("log_and_exit")
    /\ UNCHANGED <<pc, HUtilObject, operation, vm_supported, public_settings,
                   protected_settings, det, scom_port_open,
                   cert_signed_by_scom, probes, detects, scomChecks, verdict,
                   restarts,
                   restart_exit_code>>
    /\ UNCHANGED engineRest

\* main, line 167: log_and_exit(operation, exit_code, message)
MainExit ==
    /\ mpc = "log_and_exit"
    /\ log_and_exit(main_exit_code)
    /\ UNCHANGED <<pc, HUtilObject, operation, main_exit_code, message,
                   vm_supported, public_settings, protected_settings, det,
                   scom_port_open, cert_signed_by_scom, probes, detects,
                   scomChecks, verdict, restarts,
                   restart_exit_code>>
    /\ UNCHANGED engineRest

-----------------------------------------------------------------------------
(* detect_multiple_connections and detect_scom_connection *)

Bool(b) == IF b THEN "True" ELSE "False"

\* the detector returns: no conflict
DetectorReturns ==
    /\ Goto("detect_done")
    /\ verdict' = "Clear"

\* the detector raises OMSAgentUnwantedMultipleConnectionsException
DetectorRaises(v) ==
    /\ Raise("OMSAgentUnwantedMultipleConnectionsException")
    /\ verdict' = v

\* a command of the detector: output.encode fails
DetectorDecodeError ==
    /\ Raise("UnicodeDecodeError")
    /\ verdict' = verdict

\* lines 468-512, after the enumeration
Enumerated(installed, list, scan) ==
    LET a == AfterEnumeration(scan) IN
    /\ det' = [det EXCEPT !.omsadmin = Bool(installed), !.list = list,
                          !.found = scan.found,
                          !.other_connection_exists = scan.other,
                          !.result = a]
    /\ CASE a = "return" -> DetectorReturns /\ scomChecks' = scomChecks
         [] a = "raise" -> DetectorRaises("OtherWorkspace")
                           /\ scomChecks' = scomChecks
         [] a = "scom" -> /\ Goto("scom_omsadmin")
                          /\ verdict' = verdict
                          /\ scomChecks' = scomChecks + 1

\* detect_multiple_connections up to the call of detect_scom_connection
detect_multiple_connections ==
    /\ mpc = "detect"
    /\ \/ \E raw \in ListOutputs :
            LET r == run_get_output(waagentLoaded, 0, raw) IN
            IF r.raised
            THEN /\ det' = [det EXCEPT !.omsadmin = "True", !.list = raw,
                                       !.result = "error"]
                 /\ DetectorDecodeError
                 /\ scomChecks' = scomChecks
            ELSE Enumerated(TRUE, r.output, ScanWorkspaceList(r.output))
       \/ \E dirs \in DirLists :
            Enumerated(FALSE, dirs, ScanDirs(dirs, FALSE))
    /\ UNCHANGED <<pc, HUtilObject, operation, main_exit_code, message,
                   vm_supported, public_settings, protected_settings,
                   scom_port_open, cert_signed_by_scom, probes, detects,
                   restarts,
                   restart_exit_code>>
    /\ UNCHANGED engineRest

\* a probe of detect_scom_connection answered: return on False
Probed(source, answer, next) ==
    /\ scom_port_open' = answer
    /\ probes' = Append(probes, source)
    /\ IF answer = "False"
       THEN DetectorReturns
       ELSE Goto(next) /\ verdict' = verdict

\* detect_scom_connection, lines 540-546
ScomOmsadmin ==
    /\ mpc = "scom_omsadmin"
    /\ IF det.omsadmin = "True"
       THEN \E code \in ProbeExitCodes, raw \in ProbeOutputs :
            LET r == run_get_output(waagentLoaded, code, raw) IN
            /\ det' = [det EXCEPT !.probe_exit_code = code,
                                  !.probe_output = raw]
            /\ IF r.raised
               THEN /\ DetectorDecodeError
                    /\ probes' = Append(probes, "omsadmin")
                    /\ scom_port_open' = scom_port_open
               ELSE Probed("omsadmin",
                           detect_scom_using_omsadmin(r.exit_code, r.output),
                           "scom_editor")
       ELSE /\ Goto("scom_editor")
            /\ UNCHANGED <<det, scom_port_open, probes, verdict>>
    /\ UNCHANGED <<pc, HUtilObject, operation, main_exit_code, message,
                   vm_supported, public_settings, protected_settings,
                   cert_signed_by_scom, detects, scomChecks, restarts,
                   restart_exit_code>>
    /\ UNCHANGED engineRest

port_is_not_False(port) == port # "False"

\* scom_port_open is None: no source has answered yet
port_is_None(port) == port = "None"

\* detect_scom_connection, lines 548-553
ScomEditor ==
    /\ mpc = "scom_editor"
    /\ IF port_is_None(scom_port_open)
       THEN \E editor \in BOOLEAN, conf \in BOOLEAN :
            IF editor /\ conf
            THEN \E code \in ProbeExitCodes, raw \in ProbeOutputs :
                 LET r == run_get_output(waagentLoaded, code, raw) IN
                 /\ det' = [det EXCEPT !.editor = Bool(editor),
                                       !.conf = Bool(conf),
                                       !.probe_exit_code = code,
                                       !.probe_output = raw]
                 /\ IF r.raised
                    THEN /\ DetectorDecodeError
                         /\ probes' = Append(probes, "omiconfigeditor")
                         /\ scom_port_open' = scom_port_open
                    ELSE Probed("omiconfigeditor",
                                detect_scom_using_omiconfigeditor(
                                    r.exit_code, r.output),
                                "scom_conf")
            ELSE /\ det' = [det EXCEPT !.editor = Bool(editor),
                                       !.conf = Bool(conf)]
                 /\ Goto("scom_conf")
                 /\ UNCHANGED <<scom_port_open, probes, verdict>>
       ELSE /\ Goto("scom_conf")
            /\ UNCHANGED <<det, scom_port_open, probes, verdict>>
    /\ UNCHANGED <<pc, HUtilObject, operation, main_exit_code, message,
                   vm_supported, public_settings, protected_settings,
                   cert_signed_by_scom, detects, scomChecks, restarts,
                   restart_exit_code>>
    /\ UNCHANGED engineRest

\* detect_scom_connection, lines 555-559
ScomConf ==
    /\ mpc = "scom_conf"
    /\ IF port_is_None(scom_port_open) /\ det.conf = "True"
       THEN \E txt \in ConfTexts :
            /\ det' = [det EXCEPT !.conf_text = txt]
            /\ Probed("omiserver.conf",
                      detect_scom_using_omiserver_conf(txt), "scom_cert")
       ELSE /\ Goto("scom_cert")
            /\ UNCHANGED <<det, scom_port_open, probes, verdict>>
    /\ UNCHANGED <<pc, HUtilObject, operation, main_exit_code, message,
                   vm_supported, public_settings, protected_settings,
                   cert_signed_by_scom, detects, scomChecks, restarts,
                   restart_exit_code>>
    /\ UNCHANGED engineRest

\* the end of detect_scom_connection once the certificate was looked at
CertDecision(signed) ==
    /\ cert_signed_by_scom' = signed
    /\ IF ScomConflict(scom_port_open, signed)
       THEN DetectorRaises("ScomManaged")
       ELSE DetectorReturns

\* detect_scom_connection, lines 561-592
ScomCert ==
    /\ mpc = "scom_cert"
    /\ IF scom_port_open = "None"
       THEN /\ DetectorReturns
            /\ UNCHANGED <<det, cert_signed_by_scom>>
       ELSE \/ /\ det' = [det EXCEPT !.cert = "False"]
               /\ CertDecision(FALSE)
            \/ \E w \in WhichExitCodes \ {0} :
               /\ det' = [det EXCEPT !.cert = "True", !.openssl = w,
                                     !.result = "exit"]
               /\ log_and_exit(UnsupportedOpenSSL)
               /\ UNCHANGED <<cert_signed_by_scom, verdict>>
            \/ \E code \in CertExitCodes, raw \in CertOutputs :
               LET r == run_get_output(waagentLoaded, code, raw) IN
               /\ det' = [det EXCEPT !.cert = "True", !.openssl = 0,
                                     !.cert_exit_code = code,
                                     !.cert_output = raw]
               /\ IF r.raised
                  THEN DetectorDecodeError
                       /\ cert_signed_by_scom' = cert_signed_by_scom
                  ELSE CertDecision(CertSigned(r.exit_code, r.output))
    /\ UNCHANGED <<pc, HUtilObject, operation, main_exit_code, message,
                   vm_supported, public_settings, protected_settings,
                   scom_port_open, probes, detects, scomChecks, restarts,
                   restart_exit_code>>
    /\ UNCHANGED engineRest

\* install, lines 200-207: the detector returned, the locals of the detector
\* are gone, and install goes on to the install command
InstallAfterDetection ==
    /\ mpc = "detect_done"
    /\ Goto("engine")
    /\ pc' = "start"
    /\ det' = NoDet
    /\ scom_port_open' = "None"
    /\ cert_signed_by_scom' = FALSE
    /\ probes' = <<>>
    /\ UNCHANGED <<HUtilObject, operation, main_exit_code, message,
                   vm_supported, public_settings, protected_settings,
                   detects, scomChecks, verdict, restarts,
                   restart_exit_code>>
    /\ UNCHANGED engineRest

NextMain ==
    \/ MainDispatch
    \/ parse_context
    \/ install
    \/ uninstall
    \/ enable
    \/ disable
    \/ dummy_command
    \/ detect_multiple_connections
    \/ ScomOmsadmin
    \/ ScomEditor
    \/ ScomConf
    \/ ScomCert
    \/ InstallAfterDetection
    \/ InstallCommand
    \/ UninstallCommand
    \/ EnableCommand
    \/ Execute
    \/ LoopExit
    \/ RetryCheck
    \/ Sleep
    \/ FinalCheck
    \/ ReturnExitCode
    \/ EnableReturn
    \/ MainResult
    \/ MainExcept
    \/ MainExit

SpecMain == InitMain /\ [][NextMain]_vars

-----------------------------------------------------------------------------
(* The process-wide caches: get_handler_env and get_latest_seq_no *)

MaxAccesses == 6

\* the sequence numbers of the settings files of the config folder: -1
\* when it holds none or cannot be walked
SeqNos == {-1, 0, 1, 2}

\* the two caches and the counts of their computations
Caches == [env |-> HandlerEnvironment, seq |-> SettingsSequenceNumber,
           loads |-> envLoads, walks |-> seqWalks, envCalls |-> envCalls]

\* get_handler_env(); ok: HandlerEnvironment.json can be read and parsed
get_handler_env(c, ok) ==
    IF c.env = "None"
    THEN [c EXCEPT !.env = IF ok THEN "env" ELSE "None",
                   !.loads = @ + 1, !.envCalls = @ + 1]
    ELSE [c EXCEPT !.envCalls = @ + 1]

\* get_latest_seq_no(); latest: the number of the newest settings file
get_latest_seq_no(c, ok, latest) ==
    IF c.seq = -1
    THEN [get_handler_env(c, ok) EXCEPT
            !.seq = IF latest < 0 THEN 0 ELSE latest, !.walks = @ + 1]
    ELSE c

SetCaches(c) ==
    /\ HandlerEnvironment' = c.env
    /\ SettingsSequenceNumber' = c.seq
    /\ envLoads' = c.loads
    /\ seqWalks' = c.walks
    /\ envCalls' = c.envCalls

\* the module has been loaded, nothing has called the cache functions yet
InitCaches ==
    /\ waagentLoaded = FALSE
    /\ op = "None"
    /\ retries = 0
    /\ retry_check = "None"
    /\ final_check = "None"
    /\ initial_sleep_time = 0
    /\ sleep_increase_factor = 0
    /\ try_count = 0
    /\ sleep_time = 0
    /\ exit_code = -1
    /\ output = <<>>
    /\ should_retry = FALSE
    /\ pc = "caches"
    /\ exc = "None"
    /\ runs = 0
    /\ lastRun = NoRun
    /\ sleeps = <<>>
    /\ declined = FALSE
    /\ updates = 0
    /\ finalCalls = 0
    /\ finalArgs = NoRun
    /\ finalRet = -1
    /\ pres = NoResult
    /\ MainIdle

CachesFrame ==
    UNCHANGED <<waagentLoaded, op, retries, retry_check, final_check,
                initial_sleep_time, sleep_increase_factor, try_count,
                sleep_time, exit_code, output, should_retry, pc, exc, runs,
                lastRun, sleeps, declined, updates, finalCalls, finalArgs,
                finalRet, pres, HUtilObject, operation, mpc, main_exit_code,
                message, exitCode, reports, vm_supported, public_settings,
                protected_settings, det, scom_port_open, cert_signed_by_scom,
                probes, detects, scomChecks, verdict, restarts,
                restart_exit_code>>

\* a call of get_handler_env(), as get_settings and update_status_file
\* make it
CallGetHandlerEnv ==
    /\ pc = "caches"
    /\ envCalls + seqCalls < MaxAccesses
    /\ \E ok \in BOOLEAN : SetCaches(get_handler_env(Caches, ok))
    /\ seqCalls' = seqCalls
    /\ CachesFrame

\* a call of get_latest_seq_no(), as get_settings and update_status_file
\* make it
CallGetLatestSeqNo ==
    /\ pc = "caches"
    /\ envCalls + seqCalls < MaxAccesses
    /\ \E ok \in BOOLEAN, latest \in SeqNos :
        SetCaches(get_latest_seq_no(Caches, ok, latest))
    /\ seqCalls' = seqCalls + 1
    /\ CachesFrame

NextCaches ==
    \/ CallGetHandlerEnv
    \/ CallGetLatestSeqNo

SpecCaches == InitCaches /\ [][NextCaches]_vars

-----------------------------------------------------------------------------
(* Properties *)

RECURSIVE Pow(_, _)
Pow(b, e) == IF e = 0 THEN 1 ELSE b * Pow(b, e - 1)

\* the while loop of run_command_with_retries is over
LoopOver ==
    \/ pc \in {"final", "returned"}
    \/ pc = "raised" /\ exc = "OMSAgentCannotConnectToOMSException"

\* C1: when the retry policy answers retry after every attempt, a call with
\* retries = n executes the command exactly n + 1 times.
C1_AlwaysRetryMakesNPlusOneAttempts ==
    (LoopOver /\ ~declined) => runs = retries + 1

C1_Witness ==
    pc = "returned" /\ ~declined /\ retries >= 2 /\ runs = retries + 1

\* C2: whatever the retry policy answers, the command is executed at most
\* retries + 1 times, at least once by the time the call returns, and
\* exactly once when retries = 0.
C2_AttemptsBounded ==
    /\ pc # "start" => runs <= retries + 1
    /\ pc = "returned" => runs >= 1
    /\ (LoopOver /\ retries = 0) => runs = 1

C2_Witness ==
    pc = "returned" /\ retries = 0 /\ runs = 1 /\ should_retry

\* C3: once the retry policy has answered do-not-retry, no further attempt
\* and no sleep happens, the declined attempt's exit code and output are the
\* ones the loop ends with, and a decline on the first attempt leaves one
\* attempt and no sleep.
C3_DeclineStopsTheLoop ==
    /\ [][declined => /\ runs' = runs
                      /\ sleeps' = sleeps
                      /\ lastRun' = lastRun
                      /\ pc' \in {"final", "returned", "raised"}]_vars
    /\ [](declined /\ pc = "final" =>
            /\ exit_code = lastRun.exit_code
            /\ output = lastRun.output)
    /\ [](declined /\ runs = 1 => sleeps = <<>>)

C3_Witness ==
    declined /\ pc = "returned" /\ runs = 1 /\ sleeps = <<>>

\* C4: every sleep of a call is followed by another attempt: a call that
\* has returned slept one time less than it executed the command.
C4_NoSleepAfterLastAttempt ==
    pc = "returned" => Len(sleeps) = runs - 1

\* C5: the k-th sleep of a call (after attempt k - 1) lasts
\* initial_sleep_time * sleep_increase_factor^(k-1); with the default
\* arguments of install, uninstall and enable every sleep lasts 30 seconds.
C5_SleepDurations ==
    /\ \A k \in 1..Len(sleeps) :
          sleeps[k] = initial_sleep_time * Pow(sleep_increase_factor, k - 1)
    /\ op \in {"Install", "Uninstall", "Enable"} =>
          \A k \in 1..Len(sleeps) : sleeps[k] = 30

C5_Witness ==
    Len(sleeps) >= 3 /\ sleep_increase_factor >= 2 /\ sleeps[3] > sleeps[1]

\* C6: a supplied final policy is called exactly once, after the loop, with
\* the exit code and output of the last attempt, and what it returns is the
\* exit code of the call; without a final policy the last attempt's exit
\* code is returned.
C6_FinalPolicyAppliedOnce ==
    /\ pc = "returned" =>
          IF final_check = "None"
          THEN finalCalls = 0 /\ exit_code = lastRun.exit_code
          ELSE finalCalls = 1 /\ finalArgs = lastRun /\ exit_code = finalRet
    /\ (pc = "raised" /\ exc = "OMSAgentCannotConnectToOMSException") =>
          finalCalls = 1 /\ finalArgs = lastRun
    /\ pc \in {"start", "loop", "check", "sleep", "final"} => finalCalls = 0

C6_Witness ==
    /\ pc = "returned"
    /\ final_check = "final_check_if_dpkg_locked"
    /\ runs >= 2
    /\ exit_code = DPKGLockedErrorCode
    /\ lastRun.exit_code = 1

\* C7: a call of run_command_with_retries ends by returning an exit code;
\* the only failure raised out of it is the one of the no-internet final
\* policy.
C7_OnlyNoInternetRaises ==
    pc = "raised" =>
        /\ exc = "OMSAgentCannotConnectToOMSException"
        /\ final_check = "raise_if_no_internet"

\* C8 as stated: final_check_if_dpkg_locked returns 12 whenever the output
\* matches the lock pattern, whatever the exit code, and the exit code
\* otherwise.
C8_Original ==
    pres.fn = "final_check_if_dpkg_locked" =>
        pres.value = IF dpkg_locked_re_search(output)
                     THEN 12
                     ELSE exit_code

\* C8 amended: final_check_if_dpkg_locked returns 12 when the exit code is
\* not 0 and the output matches the lock pattern, and the exit code
\* unchanged otherwise (no match, or exit code 0).
C8_LockedRemappedWhenFailed ==
    pres.fn = "final_check_if_dpkg_locked" =>
        pres.value = IF exit_code # 0 /\ dpkg_locked_re_search(output)
                     THEN 12
                     ELSE exit_code

C8_Witness ==
    /\ pres.fn = "final_check_if_dpkg_locked"
    /\ exit_code = 1
    /\ pres.value = 12

\* C9 as stated: the policy answers retry exactly when the output matches
\* the lock pattern, or the exit code is 64 and apt-get is available.
C9_Original ==
    (pres.fn = "retry_if_dpkg_locked_or_curl_is_not_found" /\ ~pres.raised)
    => (pres.should_retry <=>
            \/ dpkg_locked_re_search(output)
            \/ exit_code = 64 /\ pres.apt = 0)

\* C9 amended: every answer of the policy is retry exactly when the exit
\* code is not 0 and the output matches the lock pattern, or the exit code
\* is 64 and apt-get is available.
C9_RetryWhenLockedOrCurlMissing ==
    (pres.fn = "retry_if_dpkg_locked_or_curl_is_not_found" /\ ~pres.raised)
    => (pres.should_retry <=>
            \/ exit_code # 0 /\ dpkg_locked_re_search(output)
            \/ exit_code = 64 /\ pres.apt = 0)

C9_Witness ==
    /\ pres.fn = "retry_if_dpkg_locked_or_curl_is_not_found"
    /\ ~pres.raised
    /\ pres.should_retry
    /\ exit_code = 64
    /\ ~dpkg_locked_re_search(output)

\* C10: in the call of enable the retry policy answers retry exactly when
\* the exit code is 5 or 6, a further onboarding attempt follows only an
\* attempt that ended with 5 or 6, and there are at most 6 attempts.
C10_OnboardingRetriesOn5And6 ==
    /\ [](op = "Enable" =>
            /\ runs <= 6
            /\ (pc \in {"sleep", "final"} =>
                    (should_retry <=> exit_code \in {5, 6})))
    /\ [][(op = "Enable" /\ runs >= 1 /\ runs' = runs + 1) =>
            exit_code \in {5, 6}]_vars

C10_Witness ==
    op = "Enable" /\ pc = "returned" /\ runs = 6 /\ exit_code = 6

\* C11: in enable, the final policy raise_if_no_internet raises
\* OMSAgentCannotConnectToOMSException exactly when the exit code it is given
\* is 7 and returns every other exit code unchanged; once it has raised, the
\* restart command is not run and the process ends with exit code 55.
C11_NoInternetRaisesOnlyOn7 ==
    (operation = "Enable" /\ finalCalls = 1) =>
        /\ pc = "raised" <=> finalArgs.exit_code = EnableErrorResolvingHost
        /\ pc = "raised" =>
            /\ exc = "OMSAgentCannotConnectToOMSException"
            /\ restarts = 0
            /\ mpc = "exited" => exitCode = CannotConnectCode
        /\ pc = "returned" => finalRet = finalArgs.exit_code

C11_Witness ==
    /\ operation = "Enable"
    /\ finalCalls = 1
    /\ finalArgs.exit_code = EnableErrorResolvingHost
    /\ mpc = "exited"
    /\ exitCode = CannotConnectCode
    /\ restarts = 0

\* C12: with the onboarding script present, when the workspace list that
\* 'omsadmin.sh -l' delivered holds the target workspace id, whatever else
\* it holds and in whatever order, detect_multiple_connections returns
\* without raising and detect_scom_connection is not called.
C12_TargetListedMeansNoConflict ==
    (/\ det.omsadmin = "True"
     /\ det.result \in {"return", "raise", "scom"}
     /\ \E i \in 1..Len(det.list) : det.list[i] = "TARGET")
    => /\ det.result = "return"
       /\ mpc = "detect_done"
       /\ exc = "None"
       /\ verdict = "Clear"
       /\ scomChecks = 0
       /\ probes = <<>>

C12_Witness ==
    /\ det.omsadmin = "True"
    /\ det.list \in {<<"scom", Newline, "TARGET">>,
                     <<"OTHER", Newline, "TARGET">>}
    /\ mpc = "detect_done"
    /\ verdict = "Clear"
    /\ scomChecks = 0

\* C13: when 'omsadmin.sh -o' or omiconfigeditor answered with an
\* 'illegal option' or 'unknown option' message, the probe is inconclusive:
\* scom_port_open stays undetermined and detect_scom_connection goes on to
\* its next source instead of returning.
C13_UnsupportedOptionIsInconclusive ==
    (/\ probes # <<>>
     /\ probes[Len(probes)] \in {"omsadmin", "omiconfigeditor"}
     /\ exc = "None"
     /\ \/ InLower("illegal option", det.probe_output)
        \/ InLower("unknown option", det.probe_output))
    => /\ scom_port_open = "None"
       /\ mpc \in {"scom_editor", "scom_conf"}

\* the enumeration is over and it held another workspace id or a SCOM entry
\* but not the target workspace id
CandidateWithoutTarget ==
    /\ det.result \in {"return", "raise", "scom"}
    /\ \E i \in 1..Len(det.list) : det.list[i] \in {"OTHER", "scom"}
    /\ \A i \in 1..Len(det.list) : det.list[i] # "TARGET"

\* C14 as stated: when the target workspace is not found and another
\* workspace id or a SCOM entry is found, detect_scom_connection is run
\* before detect_multiple_connections returns or raises.
C14_Original ==
    CandidateWithoutTarget => scomChecks >= 1

\* C14: when the target workspace is not found and another workspace id or a
\* SCOM entry is found, detect_multiple_connections raises
\* OMSAgentUnwantedMultipleConnectionsException at once, without running
\* detect_scom_connection; detect_scom_connection runs only when the
\* enumeration found neither the target nor anything else.
C14_CandidateRaisesAtOnce ==
    /\ CandidateWithoutTarget =>
        /\ det.result = "raise"
        /\ exc = "OMSAgentUnwantedMultipleConnectionsException"
        /\ verdict = "OtherWorkspace"
        /\ scomChecks = 0
        /\ probes = <<>>
    /\ det.result = "scom" =>
        /\ ~det.found
        /\ ~det.other_connection_exists
        /\ scomChecks = 1

C14_Witness ==
    /\ CandidateWithoutTarget
    /\ det.omsadmin = "False"
    /\ det.list = <<"conf", "scom">>
    /\ mpc = "exited"
    /\ verdict = "OtherWorkspace"
    /\ scomChecks = 0

\* C15: the detector raises the SCOM conflict only when a probe found the
\* SCOM port open and the certificate exists, was read with exit code 0 and
\* has an issuer matching the SCOM pattern; with both it does raise it.
C15_ScomConflictNeedsPortAndCertificate ==
    /\ verdict = "ScomManaged" =>
        /\ scom_port_open = "True"
        /\ probes # <<>>
        /\ cert_signed_by_scom
        /\ det.cert = "True"
        /\ det.cert_exit_code = 0
        /\ issuer_re_search(det.cert_output)
        /\ exc = "OMSAgentUnwantedMultipleConnectionsException"
    /\ (scom_port_open = "True" /\ cert_signed_by_scom) =>
        verdict = "ScomManaged"

C15_Witness ==
    /\ verdict = "ScomManaged"
    /\ scom_port_open = "True"
    /\ cert_signed_by_scom
    /\ probes = <<"omiserver.conf">>
    /\ mpc = "exited"

\* detect_multiple_connections and detect_scom_connection are over
DetectorOver ==
    /\ det.result \in {"return", "raise", "scom", "exit"}
    /\ mpc \notin {"detect", "scom_omsadmin", "scom_editor", "scom_conf",
                   "scom_cert"}

OpensslUnavailable ==
    /\ scom_port_open = "True"
    /\ det.cert = "True"
    /\ det.openssl \notin {-1, 0}

\* the SCOM port was found open, the certificate exists and 'openssl x509'
\* returned a non-zero exit code
CertificateUnreadable ==
    /\ scom_port_open = "True"
    /\ det.cert = "True"
    /\ det.openssl = 0
    /\ det.cert_exit_code # 0
    /\ exc # "UnicodeDecodeError"

\* C17 as stated: with the port found open, when the certificate cannot be
\* read or openssl is unavailable, no conflict is raised, install is not
\* aborted and the detector returns to install.
C17_Original ==
    (OpensslUnavailable \/ CertificateUnreadable) =>
        /\ verdict = "Clear"
        /\ mpc = "detect_done"

\* C17: with the port found open, when 'openssl x509' returns a non-zero
\* exit code for the certificate no conflict is raised and the detector
\* returns, and install goes on to the install command whenever the detector
\* returns; when openssl is unavailable no conflict is raised either, but
\* install ends at once with exit code 60 and the install command is not run.
C17_UnreadableCertificateIsNoConflict ==
    /\ [](CertificateUnreadable =>
            /\ verdict = "Clear"
            /\ ~cert_signed_by_scom
            /\ mpc = "detect_done")
    /\ [](OpensslUnavailable =>
            /\ verdict = "None"
            /\ exc = "None"
            /\ mpc = "exited"
            /\ exitCode = UnsupportedOpenSSL
            /\ reports = 1
            /\ runs = 0)
    /\ [][mpc = "detect_done" =>
            /\ mpc' = "engine"
            /\ pc' = "start"
            /\ operation' = "Install"]_vars

C17_Witness ==
    /\ CertificateUnreadable
    /\ det.cert_output = <<"IssuerSCOM">>
    /\ mpc = "detect_done"
    /\ verdict = "Clear"

\* C18: when the detector raises a conflict, for another workspace or for
\* SCOM, install ends with exit code 10 after one status report, the install
\* command is never executed and run_command_with_retries is never entered,
\* and the detector was called once.
C18_ConflictEndsInstallWithCode10 ==
    verdict \in {"OtherWorkspace", "ScomManaged"} =>
        /\ operation = "Install"
        /\ exc = "OMSAgentUnwantedMultipleConnectionsException"
        /\ mpc \in {"handler", "log_and_exit", "exited"}
        /\ runs = 0
        /\ pc = "idle"
        /\ sleeps = <<>>
        /\ detects = 1
        /\ mpc \in {"log_and_exit", "exited"} =>
            main_exit_code = MultipleConnectionsCode
        /\ mpc = "exited" =>
            (exitCode = MultipleConnectionsCode /\ reports = 1)

C18_Witness ==
    /\ verdict = "ScomManaged"
    /\ operation = "Install"
    /\ mpc = "exited"
    /\ exitCode = MultipleConnectionsCode
    /\ runs = 0
    /\ detects = 1

\* the exit code of the first precondition of install or enable that the
\* settings read so far fail, -1 when they fail none
FailedPrecondition ==
    IF vm_supported = "unread" THEN -1
    ELSE IF vm_supported = "False" THEN UnsupportedOSCode
    ELSE IF public_settings.kind = "None" THEN MissingParameterCode
    ELSE IF operation = "Enable" /\ protected_settings.kind = "None"
    THEN MissingParameterCode
    ELSE IF public_settings.workspaceId = "None" THEN MissingParameterCode
    ELSE IF operation = "Enable" /\ protected_settings.workspaceKey = "None"
    THEN MissingParameterCode
    ELSE IF public_settings.workspaceId = "invalid" THEN InvalidParameterCode
    ELSE IF operation = "Enable"
            /\ protected_settings.workspaceKey = "invalid"
    THEN InvalidParameterCode
    ELSE IF operation = "Enable" /\ det.omsadmin = "False"
    THEN EnableCalledBeforeSuccessfulInstall
    ELSE -1

\* C19: in install and enable, when a precondition fails (unsupported OS 51;
\* settings, workspace id or workspace key missing 11; workspace id or key
\* invalid 11; onboarding script absent on enable 20), the process ends with
\* the code of the first one that fails, and the command is never executed:
\* run_command_with_retries is not entered and the detector is not run.
C19_FailedPreconditionEndsOperation ==
    (operation \in {"Install", "Enable"} /\ FailedPrecondition # -1) =>
        /\ runs = 0
        /\ pc = "idle"
        /\ detects = 0
        /\ restarts = 0
        /\ mpc \in {"handler", "log_and_exit", "exited"}
        /\ mpc = "exited" =>
            (exitCode = FailedPrecondition /\ reports = 1)

C19_Witness ==
    /\ operation = "Enable"
    /\ FailedPrecondition = EnableCalledBeforeSuccessfulInstall
    /\ mpc = "exited"
    /\ exitCode = EnableCalledBeforeSuccessfulInstall
    /\ runs = 0

\* an exception is on its way to the handlers of main
ExceptionPending ==
    \/ mpc = "handler"
    \/ mpc = "engine" /\ pc = "raised"

\* the exit code main gives an exception raised while an operation runs
FailureCode ==
    IF exc \in {"OMSAgentParameterMissingError",
                "OMSAgentInvalidParameterError"} THEN 11
    ELSE IF exc = "OMSAgentUnwantedMultipleConnectionsException" THEN 10
    ELSE IF exc = "OMSAgentCannotConnectToOMSException" THEN 55
    ELSE 1

\* C20: every exception raised while an operation runs is caught by main,
\* which ends the process with one exit code after one status report:
\* missing parameter 11, invalid parameter 11, multiple connections 10,
\* cannot connect 55, any other exception 1 with the exception in the
\* message reported.
C20_EveryFailureEndsWithOneExitCode ==
    /\ []((exc # "None" /\ mpc \in {"log_and_exit", "exited"}) =>
            /\ main_exit_code = FailureCode
            /\ message.error = exc
            /\ FailureCode = 1 => message.kind = "failed with error"
            /\ mpc = "exited" => (exitCode = FailureCode /\ reports = 1))
    /\ [](ExceptionPending => (exc # "None" /\ exitCode = -1 /\ reports = 0))
    /\ [][ExceptionPending => mpc' = "log_and_exit"]_vars
    /\ [][mpc = "log_and_exit" =>
            (mpc' = "exited" /\ exitCode' = main_exit_code)]_vars

C20_Witness ==
    /\ exc = "UnicodeDecodeError"
    /\ mpc = "exited"
    /\ exitCode = GenericFailureCode
    /\ message = [kind |-> "failed with error", error |-> exc]
    /\ reports = 1

\* C21: in every run of main the status is reported at most once: the report
\* is the last thing the process does, whether it is made by main at its end
\* or by the operation itself (disable without the service script, the
\* unsupported OS, enable before install, openssl unavailable).
C21_StatusReportedAtMostOnce ==
    /\ [](/\ reports <= 1
          /\ mpc = "exited" <=> reports = 1
          /\ mpc = "exited" => exitCode # -1)
    /\ [][mpc # "exited" /\ (reports' # reports => mpc' = "exited")]_vars

C21_Witness ==
    /\ operation = "Disable"
    /\ mpc = "exited"
    /\ exitCode = GenericFailureCode
    /\ main_exit_code = 0
    /\ exc = "None"
    /\ reports = 1

\* the place of a source in the order of detect_scom_connection
SourceRank(src) ==
    CASE src = "omsadmin" -> 1
      [] src = "omiconfigeditor" -> 2
      [] src = "omiserver.conf" -> 3

\* detect_scom_connection is past its three sources
SourcesDone ==
    /\ det.result = "scom"
    /\ mpc \in {"scom_cert", "detect_done"}

\* C22: detect_scom_connection consults the onboarding script, the config
\* editor and the server configuration file in this order; a missing source
\* is passed over and the next one consulted; a source is consulted only
\* when every earlier one was missing, an answer of open or closed ends the
\* consultation; with all sources missing the port stays undetermined and no
\* SCOM conflict is raised.
C22_SourcesConsultedInOrder ==
    /\ \A i \in 1..Len(probes) : \A j \in 1..Len(probes) :
        i < j => SourceRank(probes[i]) < SourceRank(probes[j])
    /\ \A i \in 1..Len(probes) :
        /\ probes[i] = "omsadmin" => det.omsadmin = "True"
        /\ probes[i] = "omiconfigeditor" =>
            (det.omsadmin = "False" /\ det.editor = "True"
             /\ det.conf = "True")
        /\ probes[i] = "omiserver.conf" =>
            (det.omsadmin = "False" /\ det.editor = "False"
             /\ det.conf = "True")
    /\ (scom_port_open # "None" /\ exc # "UnicodeDecodeError") =>
        Len(probes) = 1
    /\ SourcesDone =>
        /\ det.omsadmin = "True" => probes = <<"omsadmin">>
        /\ (det.omsadmin = "False" /\ det.editor = "True"
            /\ det.conf = "True") => probes = <<"omiconfigeditor">>
        /\ (det.omsadmin = "False" /\ det.editor = "False"
            /\ det.conf = "True") => probes = <<"omiserver.conf">>
        /\ (det.omsadmin = "False" /\ det.conf = "False") =>
            /\ probes = <<>>
            /\ scom_port_open = "None"
            /\ verdict # "ScomManaged"
            /\ mpc = "detect_done" => verdict = "Clear"

C22_Witness ==
    /\ SourcesDone
    /\ det.omsadmin = "False"
    /\ det.editor = "False"
    /\ det.conf = "True"
    /\ probes = <<"omiserver.conf">>
    /\ scom_port_open = "True"

\* 'omsadmin.sh -l' delivered a list without the target workspace id
ListedWithoutTarget ==
    /\ det.omsadmin = "True"
    /\ det.result \in {"return", "raise", "scom"}
    /\ \A i \in 1..Len(det.list) : det.list[i] # "TARGET"

\* C23 as stated: with the onboarding script present and the target
\* workspace absent from the list, a list holding no other workspace id and
\* no SCOM entry records no other connection and raises no conflict.
C23_Original ==
    (/\ ListedWithoutTarget
     /\ \A i \in 1..Len(det.list) : det.list[i] \notin {"OTHER", "scom"})
    => /\ ~det.other_connection_exists
       /\ verdict # "OtherWorkspace"

\* C23: with the onboarding script present and the target workspace absent
\* from the list, another connection is recorded and the other-workspace
\* conflict raised for every list except the 'No Workspace' answer (compared
\* without case): an empty list and a list of lines holding neither a
\* workspace id nor a SCOM entry record one too.
C23_AnyOtherLineIsACandidate ==
    ListedWithoutTarget =>
        IF LowerAll(det.list) = <<"no workspace">>
        THEN /\ ~det.other_connection_exists
             /\ det.result = "scom"
             /\ verdict # "OtherWorkspace"
        ELSE /\ det.other_connection_exists
             /\ det.result = "raise"
             /\ verdict = "OtherWorkspace"
             /\ exc = "OMSAgentUnwantedMultipleConnectionsException"

C23_Witness ==
    /\ ListedWithoutTarget
    /\ det.list = <<>>
    /\ det.other_connection_exists
    /\ verdict = "OtherWorkspace"
    /\ mpc = "exited"

\* the elements of a directive value: what stands between commas and blanks
RECURSIVE Elements(_, _)
Elements(v, cur) ==
    IF v = <<>>
    THEN {cur}
    ELSE IF Head(v) \in {",", Blank}
    THEN {cur} \cup Elements(Tail(v), <<>>)
    ELSE Elements(Tail(v), Append(cur, Head(v)))

\* the tokens of a text from position i up to the end of the line
RECURSIVE RestOfLine(_, _)
RestOfLine(txt, i) ==
    IF i > Len(txt) \/ txt[i] = Newline
    THEN <<>>
    ELSE <<txt[i]>> \o RestOfLine(txt, i + 1)

\* the values of the httpsport directives of a text, in the order of the
\* text: for each "httpsport" that starts a line and is followed by "=",
\* white space aside, the rest of the line after the "="
RECURSIVE DirectiveValues(_, _)
DirectiveValues(txt, q) ==
    IF q > Len(txt)
    THEN <<>>
    ELSE IF HttpsportAt(txt, q)
    THEN LET r == CHOOSE x \in (q + 1)..Len(txt) :
                    txt[x] = "=" /\ \A k \in (q + 1)..(x - 1) : txt[k] # "="
         IN  <<RestOfLine(txt, r + 1)>> \o DirectiveValues(txt, q + 1)
    ELSE DirectiveValues(txt, q + 1)

\* C24: detect_scom_using_omiserver_conf finds the port open exactly when
\* the text has an httpsport directive and 1270 is a whole element of the
\* value of the first one, the elements being separated by commas and
\* blanks: 'httpsport = 1270,8080' and 'httpsport=8080 1270' are open,
\* 'httpsport=12700' and a text without the directive are not.
C24_PortOpenIffWholeElement ==
    /\ (probes = <<"omiserver.conf">> /\ scom_port_open # "None") =>
        LET values == DirectiveValues(det.conf_text, 1) IN
        scom_port_open = "True" <=>
            /\ values # <<>>
            /\ <<"1270">> \in Elements(Head(values), <<>>)
    /\ detect_scom_using_omiserver_conf(
           <<"httpsport", Blank, "=", Blank, "1270", ",", "8080">>) = "True"
    /\ detect_scom_using_omiserver_conf(
           <<"httpsport", "=", "8080", Blank, "1270">>) = "True"
    /\ detect_scom_using_omiserver_conf(<<"httpsport", "=", "12700">>)
           = "False"
    /\ detect_scom_using_omiserver_conf(<<"a", Newline, "8080">>) = "False"

C24_Witness ==
    /\ probes = <<"omiserver.conf">>
    /\ det.conf_text = <<"httpsport", "=", "8080", Blank, "1270">>
    /\ scom_port_open = "True"

\* C25: retry_if_dpkg_locked_or_curl_is_not_found runs 'apt-get update'
\* once, and then answers retry, when the exit code is 64, 'which apt-get'
\* ended with 0 and the output does not show the dpkg lock; in every other
\* case it runs no 'apt-get update'.
C25_IndexRefreshOnlyForMissingCurl ==
    pres.fn = "retry_if_dpkg_locked_or_curl_is_not_found" =>
        LET refreshes == {i \in 1..Len(pres.commands) :
                            pres.commands[i] = "apt-get update"}
        IN  IF /\ exit_code = InstallErrorCurlNotInstalled
               /\ pres.apt = 0
               /\ ~dpkg_locked_re_search(output)
            THEN /\ Cardinality(refreshes) = 1
                 /\ ~pres.raised => pres.should_retry
            ELSE refreshes = {}

C25_Witness ==
    /\ pres.fn = "retry_if_dpkg_locked_or_curl_is_not_found"
    /\ exit_code = InstallErrorCurlNotInstalled
    /\ pres.apt = 0
    /\ pres.commands = <<"which apt-get", "apt-get update">>
    /\ pres.should_retry
    /\ ~pres.raised

\* C26: detect_multiple_connections is called only by install and only when
\* stopOnMultipleConnections is True; with any other value install runs no
\* enumeration and no SCOM probe and goes on to the install command at
\* once; enable, disable, uninstall and update never call the detector.
C26_DetectorOnlyWhenAsked ==
    /\ []((detects > 0 \/ scomChecks > 0 \/ probes # <<>>
           \/ det.result # "none") =>
            /\ operation = "Install"
            /\ public_settings.stopOnMultipleConnections = "True"
            /\ detects = 1)
    /\ [][(/\ mpc = "operation"
           /\ operation = "Install"
           /\ mpc' \notin {"exited", "handler"}
           /\ public_settings'.stopOnMultipleConnections # "True") =>
            /\ mpc' = "engine"
            /\ pc' = "start"
            /\ detects' = 0
            /\ det' = NoDet]_vars

C26_Witness ==
    /\ operation = "Install"
    /\ public_settings.stopOnMultipleConnections = "'true'"
    /\ detects = 0
    /\ runs = 1

\* C27: each cache is computed at most once in a process: however often
\* get_handler_env and get_latest_seq_no are called, HandlerEnvironment.json
\* is read at most once and the config folder is walked at most once,
\* whatever the first computation gave.
C27_CachesComputedOnce ==
    /\ envLoads <= 1
    /\ seqWalks <= 1

\* the call is over: it returned an exit code or left by an exception
Finished == pc \in {"returned", "raised"}

\* the statements left to a call in the worst case: three for each attempt
\* the loop condition still allows, one for the final policy
Remaining ==
    CASE pc \in {"returned", "raised"} -> 0
      [] pc = "final" -> 1
      [] pc = "loop" -> IF try_count <= retries
                        THEN 3 * (retries - try_count) + 5
                        ELSE 2
      [] pc = "check" -> 3 * (retries - try_count) + 4
      [] pc = "sleep" -> 3 * (retries - try_count) + 6
      [] OTHER -> 0

\* C28: every call of run_command_with_retries with retries >= 0 finishes,
\* whatever the retry policy answers, the policy that always answers retry
\* included: a call that has been entered eventually returns or raises, no
\* exception other than that of the final policy leaves it when the outputs
\* decode, and every statement it executes brings it nearer to its end by a
\* measure that is never negative.
C28_EveryCallFinishes ==
    /\ (pc = "loop") ~> Finished
    /\ [](pc = "raised" /\ exc # "UnicodeDecodeError" => finalCalls = 1)
    /\ [](Remaining >= 0)
    /\ [][pc # "start" => Remaining' < Remaining]_vars

C28_Witness ==
    /\ pc = "returned"
    /\ retry_check = "any"
    /\ ~declined
    /\ retries = MaxRetries
    /\ runs = retries + 1

\* a call of install or uninstall has returned
PackageCallReturned ==
    /\ pc = "returned"
    /\ op \in {"Install", "Uninstall"}

\* C29: in install and uninstall, whenever the final policy has changed the
\* exit code to 12 the command has been executed retries + 1 times (16 times
\* in install, 6 in uninstall), and a call whose loop stopped because the
\* retry policy declined returns the exit code of its last execution
\* unchanged.
C29_LockReportedOnlyAfterAllAttempts ==
    PackageCallReturned =>
        /\ finalRet # finalArgs.exit_code =>
            /\ finalRet = DPKGLockedErrorCode
            /\ exit_code = DPKGLockedErrorCode
            /\ ~declined
            /\ runs = retries + 1
            /\ runs = IF op = "Install" THEN 16 ELSE 6
        /\ declined =>
            /\ exit_code = lastRun.exit_code
            /\ finalRet = finalArgs.exit_code
            /\ finalArgs = lastRun

C29_Witness ==
    /\ PackageCallReturned
    /\ op = "Install"
    /\ finalArgs.exit_code = 1
    /\ finalRet = DPKGLockedErrorCode
    /\ runs = 16

\* the onboarding call of enable has returned and enable has gone on
OnboardingOver ==
    /\ operation = "Enable"
    /\ pc = "returned"
    /\ mpc # "engine"

\* C30: in enable the service restart command is run exactly when the
\* onboarding call returned exit code 0, at most once and after the last
\* execution of the onboarding command, and enable returns the exit code of
\* the onboarding call whatever exit code the restart command ends with.
C30_RestartExactlyAfterSuccessfulOnboarding ==
    /\ [](restarts <= 1)
    /\ [](restarts = 1 => OnboardingOver /\ exit_code = 0)
    /\ [](OnboardingOver /\ exit_code = 0 => restarts = 1)
    /\ [](OnboardingOver /\ exc # "UnicodeDecodeError" =>
            main_exit_code = exit_code)
    /\ [](restart_exit_code # -1 => restarts = 1 /\ main_exit_code = 0)
    /\ [][restarts' # restarts => pc = "returned" /\ runs' = runs]_vars
    /\ [][runs' # runs => restarts' = 0]_vars

C30_Witness ==
    /\ mpc = "exited"
    /\ operation = "Enable"
    /\ runs = 3
    /\ restarts = 1
    /\ restart_exit_code = 1
    /\ main_exit_code = 0
    /\ exitCode = 0

\* main is over without an operation
NoOperationGiven ==
    /\ operation = "None"
    /\ mpc # "main"

\* C31: when the argument names none of disable, uninstall, install, enable
\* and update, main runs no operation and ends through log_and_exit: one
\* status report, failed, with exit code 1 and the message 'No valid
\* operation provided'.
C31_NoOperationIsReported ==
    NoOperationGiven =>
        /\ mpc = "exited"
        /\ reports = 1
        /\ exitCode = GenericFailureCode
        /\ message.kind = "No valid operation provided"
        /\ runs = 0

====
